---- MODULE Spec2Model ----
(***************************************************************************)
(* Network bandwidth scheduler (package scheduler): a daily throttling     *)
(* window enforced on a network interface.                                 *)
(*                                                                         *)
(* Time is counted in ticks; TicksPerDay ticks make the 24 hours that the  *)
(* code writes as 24*time.Hour.  A time.Time is the absolute instant (an   *)
(* integer number of ticks); its wall-clock reading depends on the         *)
(* Location of the clock, which has one offset before the instant          *)
(* ZoneTransition and one after it (a fixed zone has twice the same).      *)
(***************************************************************************)
EXTENDS Integers, Sequences, FiniteSets, TLC

\* ---------------------------------------------------------------- bounds
TicksPerDay == 4
HorizonTicks == 2

\* ------------------------------------------------------------- constants
\* 24 * time.Hour
Hours24 == TicksPerDay

\* the zero time.Time, the value of a field that was never assigned
ZeroTime == 0

\* the clock stops advancing here (bound of the exploration)
MaxClock == 2 * Hours24 + HorizonTicks

\* the instant at which the Location changes its offset
ZoneTransition == 2 * Hours24 + 1

\* Locations: offset before the transition, offset after it.
\* [0,0] is UTC, [0,1] a spring-forward, [1,0] a fall-back.
Locations == { [before |-> 0, after |-> 0],
               [before |-> 0, after |-> 1],
               [before |-> 1, after |-> 0] }

\* the durations passed to New (valid ones and the nearest invalid ones)
Durations == (0 - 1) .. Hours24

VARIABLES
  throttleTimeStart,      \* argument of New
  throttleTimeEnd,        \* argument of New
  location,               \* the Location of the times the clock returns
  clock,                  \* the current instant
  clock0,                 \* the instant at which the process started
  cancelled,              \* ctx.Done() is closed
  pc,                     \* position of main / New / Run
  err,                    \* New returned an error
  nextThrottleStartTime,  \* Scheduler field
  nextThrottleEndTime,    \* Scheduler field
  nextUpdateTime,         \* Scheduler field
  throttling,             \* Scheduler field
  timer,                  \* the timer of the current loop iteration
  call,                   \* frame of New's last computeNextOccurrence call
  log,                    \* the throttle actions issued so far
  lastOk,                 \* whether the last external command succeeded
  togglesSinceCancel      \* toggles run since a cancellation during the loop

vars == << throttleTimeStart, throttleTimeEnd, location, clock, clock0,
           cancelled, pc, err, nextThrottleStartTime, nextThrottleEndTime,
           nextUpdateTime, throttling, timer, call, log, lastOk,
           togglesSinceCancel >>

\* ------------------------------------------------------ package time
\* Location.lookup: the offset in force at instant u, and the period
\* [start, end) of that offset.
ZoneOffset(loc, u) == IF u < ZoneTransition THEN loc.before ELSE loc.after

ZoneInPeriod(u, v) == (u < ZoneTransition) = (v < ZoneTransition)

\* wall-clock reading of the instant u in loc, as ticks since the epoch
Wall(loc, u) == u + ZoneOffset(loc, u)

\* now.Year(), now.Month(), now.Day(): the calendar day of u in loc
DayOf(loc, u) == Wall(loc, u) \div Hours24

\* the time-of-day component of u in loc (duration since local midnight)
TimeOfDay(loc, u) == Wall(loc, u) % Hours24

\* time.Date(y, m, d, 0, 0, 0, 0, loc): the instant whose wall-clock reading
\* is midnight of day d.  As in package time: take the wall reading as if it
\* were UTC, look the offset up there, and look it up again at the adjusted
\* instant when that falls outside the period of the first offset.
Date(loc, d) ==
  LET unix   == d * Hours24
      offset == ZoneOffset(loc, unix)
      utc    == unix - offset
  IN  IF offset # 0
        THEN IF ZoneInPeriod(unix, utc)
               THEN utc
               ELSE unix - ZoneOffset(loc, utc)
        ELSE unix

\* ------------------------------------------------- computeNextOccurrence
computeNextOccurrence(timeOfDay, loc, nw) ==
  LET t == Date(loc, DayOf(loc, nw)) + timeOfDay
  IN  IF t < nw THEN t + Hours24 ELSE t

\* ------------------------------------------------------ throttle actions
\* applyThrottling / clearThrottling: run the external command; its failure
\* is logged (apply) or ignored (clear) and nothing is returned.
applyThrottling(by, ok) ==
  /\ log' = Append(log, [op |-> "apply", by |-> by])
  /\ lastOk' = ok

clearThrottling(by, ok) ==
  /\ log' = Append(log, [op |-> "clear", by |-> by])
  /\ lastOk' = ok

\* ------------------------------------------------------------------ Init
\* no cancellation has arrived while Run was in its loop
NotCancelledInLoop == 0 - 1

NoTimer == [state |-> "none", at |-> ZeroTime]
NoCall  == [called |-> FALSE, timeOfDay |-> 0, now |-> ZeroTime, t |-> ZeroTime]

Init ==
  /\ throttleTimeStart \in Durations
  /\ throttleTimeEnd \in Durations
  /\ location \in Locations
  /\ clock0 \in Hours24 .. (2 * Hours24 - 1)
  /\ clock = clock0
  /\ cancelled = FALSE
  /\ pc = "start"
  /\ err = FALSE
  /\ nextThrottleStartTime = ZeroTime
  /\ nextThrottleEndTime = ZeroTime
  /\ nextUpdateTime = ZeroTime
  /\ throttling = FALSE
  /\ timer = NoTimer
  /\ call = NoCall
  /\ log = << >>
  /\ lastOk = TRUE
  /\ togglesSinceCancel = NotCancelledInLoop

\* ----------------------------------------------------------- environment
\* time passes (the process starts at clock0)
Tick ==
  /\ pc # "start"
  /\ clock < MaxClock
  /\ clock' = clock + 1
  /\ UNCHANGED << togglesSinceCancel,
                  throttleTimeStart, throttleTimeEnd, location, clock0,
                  cancelled, pc, err, nextThrottleStartTime,
                  nextThrottleEndTime, nextUpdateTime, throttling, timer,
                  call, log, lastOk >>

\* the context is cancelled
Cancel ==
  /\ ~cancelled
  /\ cancelled' = TRUE
  /\ togglesSinceCancel' = IF pc \in {"loop", "select"}
                             THEN 0 ELSE togglesSinceCancel
  /\ UNCHANGED << throttleTimeStart, throttleTimeEnd, location, clock, clock0,
                  pc, err, nextThrottleStartTime, nextThrottleEndTime,
                  nextUpdateTime, throttling, timer, call, log, lastOk >>

\* ------------------------------------------------------------------- New
\* variant of InvalidTimes: the upper bound compared with > instead of >=
InvalidTimes_UpperInclusive(s, e) == s < 0 \/ e < 0 \/ s > Hours24 \/ e > Hours24

\* the validation of New
InvalidTimes(s, e) == s < 0 \/ e < 0 \/ s >= Hours24 \/ e >= Hours24

\* variant of NewValidate: the previous throttling is not cleared
NewValidate_NoClear ==
  /\ pc = "start"
  /\ IF InvalidTimes(throttleTimeStart, throttleTimeEnd)
       THEN /\ err' = TRUE
            /\ pc' = "failed"
       ELSE /\ pc' = "new_start"
            /\ UNCHANGED err
  /\ UNCHANGED << togglesSinceCancel,
                  throttleTimeStart, throttleTimeEnd, location, clock, clock0,
                  cancelled, nextThrottleStartTime, nextThrottleEndTime,
                  nextUpdateTime, throttling, timer, call, log, lastOk >>

\* variant of NewValidate: the previous throttling is cleared before the
\* times are validated
NewValidate_ClearFirst ==
  /\ pc = "start"
  /\ \E ok \in BOOLEAN : clearThrottling("New", ok)
  /\ IF InvalidTimes(throttleTimeStart, throttleTimeEnd)
       THEN /\ err' = TRUE
            /\ pc' = "failed"
       ELSE /\ pc' = "new_start"
            /\ UNCHANGED err
  /\ UNCHANGED << togglesSinceCancel,
                  throttleTimeStart, throttleTimeEnd, location, clock, clock0,
                  cancelled, nextThrottleStartTime, nextThrottleEndTime,
                  nextUpdateTime, throttling, timer, call >>

\* New, up to the first clock read: validation, then clearThrottling
NewValidate ==
  /\ pc = "start"
  /\ IF InvalidTimes(throttleTimeStart, throttleTimeEnd)
       THEN /\ err' = TRUE
            /\ pc' = "failed"
            /\ UNCHANGED << log, lastOk >>
       ELSE /\ \E ok \in BOOLEAN : clearThrottling("New", ok)
            /\ pc' = "new_start"
            /\ UNCHANGED err
  /\ UNCHANGED << togglesSinceCancel,
                  throttleTimeStart, throttleTimeEnd, location, clock, clock0,
                  cancelled, nextThrottleStartTime, nextThrottleEndTime,
                  nextUpdateTime, throttling, timer, call >>

\* nextThrottleStartTime: computeNextOccurrence(throttleTimeStart, clock)
NewStartTime ==
  /\ pc = "new_start"
  /\ LET t == computeNextOccurrence(throttleTimeStart, location, clock)
     IN  /\ nextThrottleStartTime' = t
         /\ call' = [called |-> TRUE, timeOfDay |-> throttleTimeStart,
                     now |-> clock, t |-> t]
  /\ pc' = "new_end"
  /\ UNCHANGED << togglesSinceCancel,
                  throttleTimeStart, throttleTimeEnd, location, clock, clock0,
                  cancelled, err, nextThrottleEndTime, nextUpdateTime,
                  throttling, timer, log, lastOk >>

\* nextThrottleEndTime: computeNextOccurrence(throttleTimeEnd, clock); return
NewEndTime ==
  /\ pc = "new_end"
  /\ LET t == computeNextOccurrence(throttleTimeEnd, location, clock)
     IN  /\ nextThrottleEndTime' = t
         /\ call' = [called |-> TRUE, timeOfDay |-> throttleTimeEnd,
                     now |-> clock, t |-> t]
  /\ pc' = "constructed"
  /\ UNCHANGED << togglesSinceCancel,
                  throttleTimeStart, throttleTimeEnd, location, clock, clock0,
                  cancelled, err, nextThrottleStartTime, nextUpdateTime,
                  throttling, timer, log, lastOk >>

\* ------------------------------------------------------------------- Run
\* variant of RunStartup: the return of the first branch is missing, so Run
\* goes on into the loop after applying
RunStartup_NoReturn ==
  /\ pc = "constructed"
  /\ \E ok \in BOOLEAN :
       IF nextThrottleStartTime = nextThrottleEndTime
         THEN /\ applyThrottling("startup", ok)
              /\ pc' = "loop"
              /\ UNCHANGED << nextUpdateTime, throttling >>
         ELSE IF nextThrottleEndTime < nextThrottleStartTime
           THEN /\ applyThrottling("startup", ok)
                /\ nextUpdateTime' = nextThrottleEndTime
                /\ throttling' = TRUE
                /\ pc' = "loop"
           ELSE /\ clearThrottling("startup", ok)
                /\ nextUpdateTime' = nextThrottleStartTime
                /\ throttling' = FALSE
                /\ pc' = "loop"
  /\ call' = NoCall
  /\ UNCHANGED << togglesSinceCancel,
                  throttleTimeStart, throttleTimeEnd, location, clock, clock0,
                  cancelled, err, nextThrottleStartTime, nextThrottleEndTime,
                  timer >>

\* variant of RunStartup: the comparison of the second branch is the other
\* way round
RunStartup_Inverted ==
  /\ pc = "constructed"
  /\ \E ok \in BOOLEAN :
       IF nextThrottleStartTime = nextThrottleEndTime
         THEN /\ applyThrottling("startup", ok)
              /\ pc' = "returned"
              /\ UNCHANGED << nextUpdateTime, throttling >>
         ELSE IF nextThrottleStartTime < nextThrottleEndTime
           THEN /\ applyThrottling("startup", ok)
                /\ nextUpdateTime' = nextThrottleEndTime
                /\ throttling' = TRUE
                /\ pc' = "loop"
           ELSE /\ clearThrottling("startup", ok)
                /\ nextUpdateTime' = nextThrottleStartTime
                /\ throttling' = FALSE
                /\ pc' = "loop"
  /\ call' = NoCall
  /\ UNCHANGED << togglesSinceCancel,
                  throttleTimeStart, throttleTimeEnd, location, clock, clock0,
                  cancelled, err, nextThrottleStartTime, nextThrottleEndTime,
                  timer >>

\* the startup decision of Run
RunStartup ==
  /\ pc = "constructed"
  /\ \E ok \in BOOLEAN :
       IF nextThrottleStartTime = nextThrottleEndTime
         THEN /\ applyThrottling("startup", ok)
              /\ pc' = "returned"
              /\ UNCHANGED << nextUpdateTime, throttling >>
         ELSE IF nextThrottleEndTime < nextThrottleStartTime
           THEN /\ applyThrottling("startup", ok)
                /\ nextUpdateTime' = nextThrottleEndTime
                /\ throttling' = TRUE
                /\ pc' = "loop"
           ELSE /\ clearThrottling("startup", ok)
                /\ nextUpdateTime' = nextThrottleStartTime
                /\ throttling' = FALSE
                /\ pc' = "loop"
  /\ call' = NoCall
  /\ UNCHANGED << togglesSinceCancel,
                  throttleTimeStart, throttleTimeEnd, location, clock, clock0,
                  cancelled, err, nextThrottleStartTime, nextThrottleEndTime,
                  timer >>

\* now := s.clock.Now(); t := s.clock.NewTimer(s.nextUpdateTime.Sub(now))
LoopNewTimer ==
  /\ pc = "loop"
  /\ LET now == clock
     IN  timer' = [state |-> "pending", at |-> now + (nextUpdateTime - now)]
  /\ pc' = "select"
  /\ UNCHANGED << togglesSinceCancel,
                  throttleTimeStart, throttleTimeEnd, location, clock, clock0,
                  cancelled, err, nextThrottleStartTime, nextThrottleEndTime,
                  nextUpdateTime, throttling, call, log, lastOk >>

\* variant of toggleBandwidthEnforcement: each branch advances the other
\* field by 24 hours
toggle_AdvanceOther(ok) ==
  IF throttling
    THEN /\ clearThrottling("toggle", ok)
         /\ throttling' = FALSE
         /\ nextThrottleStartTime' = nextThrottleStartTime + Hours24
         /\ nextUpdateTime' = nextThrottleStartTime
         /\ UNCHANGED nextThrottleEndTime
    ELSE /\ applyThrottling("toggle", ok)
         /\ throttling' = TRUE
         /\ nextThrottleEndTime' = nextThrottleEndTime + Hours24
         /\ nextUpdateTime' = nextThrottleEndTime
         /\ UNCHANGED nextThrottleStartTime

\* variant of toggleBandwidthEnforcement: each branch wakes at the time it
\* has just advanced
toggle_WakeAtAdvanced(ok) ==
  IF throttling
    THEN /\ clearThrottling("toggle", ok)
         /\ throttling' = FALSE
         /\ nextThrottleEndTime' = nextThrottleEndTime + Hours24
         /\ nextUpdateTime' = nextThrottleEndTime + Hours24
         /\ UNCHANGED nextThrottleStartTime
    ELSE /\ applyThrottling("toggle", ok)
         /\ throttling' = TRUE
         /\ nextThrottleStartTime' = nextThrottleStartTime + Hours24
         /\ nextUpdateTime' = nextThrottleStartTime + Hours24
         /\ UNCHANGED nextThrottleEndTime

\* variant of toggleBandwidthEnforcement: the state advances only when the
\* command succeeded
toggle_OnlyOnSuccess(ok) ==
  IF throttling
    THEN /\ clearThrottling("toggle", ok)
         /\ IF ok
              THEN /\ throttling' = FALSE
                   /\ nextThrottleEndTime' = nextThrottleEndTime + Hours24
                   /\ nextUpdateTime' = nextThrottleStartTime
              ELSE UNCHANGED << throttling, nextThrottleEndTime,
                                nextUpdateTime >>
         /\ UNCHANGED nextThrottleStartTime
    ELSE /\ applyThrottling("toggle", ok)
         /\ IF ok
              THEN /\ throttling' = TRUE
                   /\ nextThrottleStartTime' = nextThrottleStartTime + Hours24
                   /\ nextUpdateTime' = nextThrottleEndTime
              ELSE UNCHANGED << throttling, nextThrottleStartTime,
                                nextUpdateTime >>
         /\ UNCHANGED nextThrottleEndTime

\* variant of toggleBandwidthEnforcement: the first branch does not reset
\* the throttling flag
toggle_NoFlip(ok) ==
  IF throttling
    THEN /\ clearThrottling("toggle", ok)
         /\ throttling' = TRUE
         /\ nextThrottleEndTime' = nextThrottleEndTime + Hours24
         /\ nextUpdateTime' = nextThrottleStartTime
         /\ UNCHANGED nextThrottleStartTime
    ELSE /\ applyThrottling("toggle", ok)
         /\ throttling' = TRUE
         /\ nextThrottleStartTime' = nextThrottleStartTime + Hours24
         /\ nextUpdateTime' = nextThrottleEndTime
         /\ UNCHANGED nextThrottleEndTime

\* toggleBandwidthEnforcement
toggleBandwidthEnforcement(ok) ==
  IF throttling
    THEN /\ clearThrottling("toggle", ok)
         /\ throttling' = FALSE
         /\ nextThrottleEndTime' = nextThrottleEndTime + Hours24
         /\ nextUpdateTime' = nextThrottleStartTime
         /\ UNCHANGED nextThrottleStartTime
    ELSE /\ applyThrottling("toggle", ok)
         /\ throttling' = TRUE
         /\ nextThrottleStartTime' = nextThrottleStartTime + Hours24
         /\ nextUpdateTime' = nextThrottleEndTime
         /\ UNCHANGED nextThrottleEndTime

\* the timer's channel delivers once its duration has elapsed
TimerReady == timer.state = "pending" /\ clock >= timer.at

\* case <-t.C(): t.Stop(); s.toggleBandwidthEnforcement()
SelectTimer ==
  /\ pc = "select"
  /\ TimerReady
  /\ timer' = [timer EXCEPT !.state = "stopped"]
  /\ \E ok \in BOOLEAN : toggleBandwidthEnforcement(ok)
  /\ pc' = "loop"
  /\ togglesSinceCancel' = IF togglesSinceCancel = NotCancelledInLoop
                             THEN togglesSinceCancel
                             ELSE togglesSinceCancel + 1
  /\ UNCHANGED << throttleTimeStart, throttleTimeEnd, location, clock, clock0,
                  cancelled, err, call >>

\* variant of SelectCancel: returns without clearing
SelectCancel_NoClear ==
  /\ pc = "select"
  /\ cancelled
  /\ pc' = "returned"
  /\ UNCHANGED << togglesSinceCancel,
                  throttleTimeStart, throttleTimeEnd, location, clock, clock0,
                  cancelled, err, nextThrottleStartTime, nextThrottleEndTime,
                  nextUpdateTime, throttling, timer, call, log, lastOk >>

\* variant of SelectCancel: clears only when the scheduler is throttling
SelectCancel_ClearIfThrottling ==
  /\ pc = "select"
  /\ cancelled
  /\ IF throttling
       THEN \E ok \in BOOLEAN : clearThrottling("cancel", ok)
       ELSE UNCHANGED << log, lastOk >>
  /\ pc' = "returned"
  /\ UNCHANGED << togglesSinceCancel,
                  throttleTimeStart, throttleTimeEnd, location, clock, clock0,
                  cancelled, err, nextThrottleStartTime, nextThrottleEndTime,
                  nextUpdateTime, throttling, timer, call >>

\* variant of SelectCancel: the cleanup also resets the throttling flag
SelectCancel_ResetFlag ==
  /\ pc = "select"
  /\ cancelled
  /\ \E ok \in BOOLEAN : clearThrottling("cancel", ok)
  /\ throttling' = FALSE
  /\ pc' = "returned"
  /\ UNCHANGED << togglesSinceCancel,
                  throttleTimeStart, throttleTimeEnd, location, clock, clock0,
                  cancelled, err, nextThrottleStartTime, nextThrottleEndTime,
                  nextUpdateTime, timer, call >>

\* case <-ctx.Done(): clearThrottling(s.nic); return
SelectCancel ==
  /\ pc = "select"
  /\ cancelled
  /\ \E ok \in BOOLEAN : clearThrottling("cancel", ok)
  /\ pc' = "returned"
  /\ UNCHANGED << togglesSinceCancel,
                  throttleTimeStart, throttleTimeEnd, location, clock, clock0,
                  cancelled, err, nextThrottleStartTime, nextThrottleEndTime,
                  nextUpdateTime, throttling, timer, call >>

Next ==
  \/ Tick
  \/ Cancel
  \/ NewValidate
  \/ NewStartTime
  \/ NewEndTime
  \/ RunStartup
  \/ LoopNewTimer
  \/ SelectTimer
  \/ SelectCancel

Spec == Init /\ [][Next]_vars

\* The steps of the program are taken when they can be; of the ready cases
\* of the select one is chosen at random, so the cancellation case is not
\* passed over forever.
Program ==
  \/ NewValidate \/ NewStartTime \/ NewEndTime \/ RunStartup
  \/ LoopNewTimer \/ SelectTimer

FairSpec == Spec /\ WF_vars(Program) /\ SF_vars(SelectCancel)

TypeOK ==
  /\ pc \in {"start", "failed", "new_start", "new_end", "constructed",
             "loop", "select", "returned"}
  /\ clock \in Hours24 .. MaxClock
  /\ throttling \in BOOLEAN
  /\ cancelled \in BOOLEAN

\* ------------------------------------------------------------ vocabulary
Valid == ~InvalidTimes(throttleTimeStart, throttleTimeEnd)

\* the number of actions of kind op issued so far
Count(op) == Cardinality({ i \in 1 .. Len(log) : log[i].op = op })

\* the number of actions of kind op issued by the step named by
CountBy(op, by) ==
  Cardinality({ i \in 1 .. Len(log) : log[i].op = op /\ log[i].by = by })

\* the actions issued by Run (all but the one of New)
RunLog == SelectSeq(log, LAMBDA a : a.by # "New")

LastAction == log[Len(log)]

NoToggle == CountBy("apply", "toggle") + CountBy("clear", "toggle") = 0

\* Run took one of the two branches that enter the loop
LoopEntered == nextUpdateTime # ZeroTime

\* the time of day tod lies in the daily window from start to end
InWindow(tod) ==
  IF throttleTimeStart < throttleTimeEnd
    THEN throttleTimeStart <= tod /\ tod < throttleTimeEnd
    ELSE tod >= throttleTimeStart \/ tod < throttleTimeEnd

\* Run is blocked in its select and the wake time is still ahead
BlockedBeforeWake == pc = "select" /\ clock < nextUpdateTime

\* ------------------------------------------------------------------- C1
\* C1: for start # end, whenever Run is blocked in its wait with the clock
\* strictly before nextUpdateTime, the last action is an apply and throttling
\* is true exactly when the current time of day lies in the window, and
\* otherwise the last action is a clear and throttling is false.
C1_WindowEnforced ==
  (BlockedBeforeWake /\ throttleTimeStart # throttleTimeEnd) =>
    IF InWindow(TimeOfDay(location, clock))
      THEN throttling /\ LastAction.op = "apply"
      ELSE ~throttling /\ LastAction.op = "clear"

C4_PermanentThrottle ==
  [][ /\ (pc = "constructed" /\ pc' # pc
             /\ nextThrottleStartTime = nextThrottleEndTime) =>
           /\ pc' = "returned"
           /\ RunLog' = << [op |-> "apply", by |-> "startup"] >>
           /\ timer' = NoTimer
      /\ (pc = "returned" /\ ~LoopEntered) =>
           /\ pc' = "returned"
           /\ log' = log
           /\ timer' = timer ]_vars

C4_Witness ==
  /\ pc = "returned"
  /\ ~LoopEntered
  /\ cancelled
  /\ clock >= clock0 + Hours24
  /\ RunLog = << [op |-> "apply", by |-> "startup"] >>

\* ------------------------------------------------------------------- C5
\* C5: New returns an error, and no scheduler, exactly when one of the two
\* offsets lies outside [0, 24h).
C5_NewErrorIff ==
  pc # "start" =>
    /\ err = ~(/\ throttleTimeStart \in 0 .. (Hours24 - 1)
               /\ throttleTimeEnd \in 0 .. (Hours24 - 1))
    /\ err = (pc = "failed")
    /\ err => /\ nextThrottleStartTime = ZeroTime
              /\ nextThrottleEndTime = ZeroTime

C5_Witness ==
  pc = "failed" /\ throttleTimeStart = Hours24 /\ throttleTimeEnd = 0

C7_NextOccurrence ==
  call.called =>
    /\ call.t >= call.now
    /\ TimeOfDay(location, call.t) = call.timeOfDay

\* ------------------------------------------------------------------- C8
\* C8: computeNextOccurrence returns midnight of today plus t, 24 hours
\* later when that is before now; the result is now itself when t is now's
\* time of day, and lies on the following calendar day when t is earlier
\* than now's time of day.
C8_TodayOrTomorrow ==
  call.called =>
    LET midnight == Date(location, DayOf(location, call.now))
        today    == midnight + call.timeOfDay
    IN  /\ call.t = IF today < call.now THEN today + Hours24 ELSE today
        /\ call.timeOfDay = TimeOfDay(location, call.now) => call.t = call.now
        /\ call.timeOfDay < TimeOfDay(location, call.now) =>
             DayOf(location, call.t) = DayOf(location, call.now) + 1

\* ------------------------------------------------------------------- C9
\* C9: started inside the window (after its start) and cancelled before the
\* window's end was reached, Run has returned with one apply (the startup's)
\* and no clear counted from construction on.
C9_InsideWindowCounts ==
  (/\ pc = "returned"
   /\ throttleTimeStart # throttleTimeEnd
   /\ InWindow(TimeOfDay(location, clock0))
   /\ TimeOfDay(location, clock0) # throttleTimeStart
   /\ NoToggle) =>
    /\ Count("apply") = 1
    /\ CountBy("apply", "startup") = 1
    /\ Count("clear") = 0

\* ------------------------------------------------------------------ C10
\* C10: started before a window that does not wrap and cancelled before any
\* timer fired, Run has returned with no apply and one clear counted from
\* construction on.
C10_OutsideWindowCounts ==
  (/\ pc = "returned"
   /\ TimeOfDay(location, clock0) < throttleTimeStart
   /\ throttleTimeStart < throttleTimeEnd
   /\ NoToggle) =>
    /\ Count("apply") = 0
    /\ Count("clear") = 1

\* ------------------------------------------------------------------ C11
\* the actions issued by toggles so far, in order
Toggles == SelectSeq(log, LAMBDA a : a.by = "toggle")

\* C11: with start 0:00 and end 12:00, started inside the window, after the
\* two boundaries 12 hours apart have each been reacted to (two toggles) and
\* Run was then cancelled, the totals since construction are two applies and
\* one clear.
C11_LongRunningCounts ==
  (/\ pc = "returned"
   /\ throttleTimeStart = 0
   /\ 2 * throttleTimeEnd = Hours24
   /\ InWindow(TimeOfDay(location, clock0))
   /\ TimeOfDay(location, clock0) # throttleTimeStart
   /\ Len(Toggles) = 2) =>
    /\ Count("apply") = 2
    /\ Count("clear") = 1

\* ------------------------------------------------------------------ C12
\* C12: whenever the two offsets are equal, Run takes the permanent-throttle
\* branch: it issues one apply and never a clear, and does not enter its loop.
C12_EqualOffsetsPermanent ==
  (/\ Valid
   /\ throttleTimeStart = throttleTimeEnd
   /\ pc \in {"loop", "select", "returned"}) =>
    /\ ~LoopEntered
    /\ pc = "returned"
    /\ RunLog = << [op |-> "apply", by |-> "startup"] >>

\* ------------------------------------------------------------------ C13
\* C13: when nextThrottleStartTime differs from nextThrottleEndTime, the
\* startup decision issues apply, sets throttling and wakes at the end time
\* if the end time is the earlier one, and otherwise issues clear, unsets
\* throttling and wakes at the start time; it leaves both times unchanged,
\* enters the loop, and is executed at most once.
C13_StartupDecision ==
  /\ [][ (/\ pc = "constructed"
          /\ pc' # pc
          /\ nextThrottleStartTime # nextThrottleEndTime) =>
           /\ pc' = "loop"
           /\ nextThrottleStartTime' = nextThrottleStartTime
           /\ nextThrottleEndTime' = nextThrottleEndTime
           /\ IF nextThrottleEndTime < nextThrottleStartTime
                THEN /\ log' = Append(log, [op |-> "apply", by |-> "startup"])
                     /\ throttling' = TRUE
                     /\ nextUpdateTime' = nextThrottleEndTime
                ELSE /\ log' = Append(log, [op |-> "clear", by |-> "startup"])
                     /\ throttling' = FALSE
                     /\ nextUpdateTime' = nextThrottleStartTime ]_vars
  /\ [](CountBy("apply", "startup") + CountBy("clear", "startup") <= 1)

C13_Witness ==
  /\ pc = "loop"
  /\ throttling
  /\ LastAction = [op |-> "apply", by |-> "startup"]
  /\ nextUpdateTime = nextThrottleEndTime

\* ------------------------------------------------------------------ C14
\* C14: a toggle from Throttling issues one clear, unsets throttling, adds
\* 24 hours to nextThrottleEndTime, leaves nextThrottleStartTime and wakes at
\* nextThrottleStartTime; a toggle from Idle issues one apply, sets
\* throttling, adds 24 hours to nextThrottleStartTime, leaves
\* nextThrottleEndTime and wakes at nextThrottleEndTime.  The clock's
\* Location and the configured offsets never change.
C14_ToggleFrame ==
  [][ /\ (pc = "select" /\ pc' = "loop") =>
           IF throttling
             THEN /\ log' = Append(log, [op |-> "clear", by |-> "toggle"])
                  /\ throttling' = FALSE
                  /\ nextThrottleEndTime' = nextThrottleEndTime + Hours24
                  /\ nextThrottleStartTime' = nextThrottleStartTime
                  /\ nextUpdateTime' = nextThrottleStartTime
             ELSE /\ log' = Append(log, [op |-> "apply", by |-> "toggle"])
                  /\ throttling' = TRUE
                  /\ nextThrottleStartTime' = nextThrottleStartTime + Hours24
                  /\ nextThrottleEndTime' = nextThrottleEndTime
                  /\ nextUpdateTime' = nextThrottleEndTime
      /\ location' = location
      /\ throttleTimeStart' = throttleTimeStart
      /\ throttleTimeEnd' = throttleTimeEnd ]_vars

C14_Witness ==
  /\ pc = "loop"
  /\ Len(Toggles) = 2
  /\ nextThrottleStartTime > clock0 + Hours24
  /\ nextThrottleEndTime > clock0 + Hours24

\* ------------------------------------------------------------------ C15
\* C15: at every iteration of the loop nextUpdateTime is nextThrottleEndTime
\* when throttling is true and nextThrottleStartTime when it is false.
C15_WakeIsNextBoundary ==
  pc \in {"loop", "select"} =>
    nextUpdateTime = IF throttling THEN nextThrottleEndTime
                                   ELSE nextThrottleStartTime

C15_Witness ==
  /\ pc = "select"
  /\ ~throttling
  /\ Len(Toggles) = 1
  /\ nextUpdateTime = nextThrottleStartTime
  /\ nextUpdateTime # nextThrottleEndTime

\* ------------------------------------------------------------------ C16
\* C16: each time the loop reads the clock to compute the next wait, neither
\* nextThrottleStartTime nor nextThrottleEndTime lies before that reading.
C16_NeverInThePast ==
  [][ (pc = "loop" /\ pc' = "select") =>
        /\ nextThrottleStartTime >= clock
        /\ nextThrottleEndTime >= clock ]_vars

\* ------------------------------------------------------------------ C17
\* C17: when Run has returned on cancellation, the timer it created for its
\* last wait is not left pending.
C17_NoPendingTimer ==
  (pc = "returned" /\ LoopEntered) => timer.state # "pending"

\* ------------------------------------------------------------------ C18
\* C18: every toggle sets nextUpdateTime to an instant that is not before the
\* previous nextUpdateTime and not before the instant the toggle runs at.
C18_WakeNondecreasing ==
  [][ (pc = "select" /\ pc' = "loop") =>
        /\ nextUpdateTime' >= nextUpdateTime
        /\ nextUpdateTime' >= clock ]_vars

\* ------------------------------------------------------------------ C19
\* the actions issued by the startup decision and by the toggles, in order
Schedule == SelectSeq(log, LAMBDA a : a.by \in {"startup", "toggle"})

\* C19: whatever the outcome of the command, a step that issues an action
\* issues one action, returns no error and leaves the scheduler in the state
\* the step prescribes: New goes on to compute its times, the startup
\* decision and every toggle set throttling to the action issued and enter
\* the loop, a toggle flips throttling; and an action is not repeated: the
\* next toggle comes no earlier than nextUpdateTime and issues the opposite
\* action.
C19_FailureIgnored ==
  [][ Len(log') > Len(log) =>
        LET a == log'[Len(log')]
        IN  /\ Len(log') = Len(log) + 1
            /\ err' = FALSE
            /\ pc' # "failed"
            /\ pc = "start" =>
                 /\ pc' = "new_start"
                 /\ throttling' = FALSE
                 /\ nextUpdateTime' = ZeroTime
            /\ pc = "constructed" =>
                 /\ pc' \in {"loop", "returned"}
                 /\ pc' = "loop" => throttling' = (a.op = "apply")
                 /\ nextThrottleStartTime' = nextThrottleStartTime
                 /\ nextThrottleEndTime' = nextThrottleEndTime
            /\ a.by = "toggle" =>
                 /\ pc' = "loop"
                 /\ clock >= nextUpdateTime
                 /\ throttling' = ~throttling
                 /\ throttling' = (a.op = "apply")
                 /\ a.op # Schedule[Len(Schedule)].op
                 /\ nextUpdateTime' = IF throttling THEN nextThrottleStartTime
                                                    ELSE nextThrottleEndTime ]_vars

C19_Witness ==
  /\ pc = "select"
  /\ ~lastOk
  /\ throttling
  /\ LastAction = [op |-> "apply", by |-> "toggle"]
  /\ Len(Toggles) = 2

\* ------------------------------------------------------------------ C20
\* C20: with start different from end, every timer fire issues exactly one
\* action, and the actions of the startup decision and of the successive
\* toggles alternate between apply and clear.
C20_Alternation ==
  /\ [][ (pc = "select" /\ pc' = "loop") => Len(log') = Len(log) + 1 ]_vars
  /\ [](throttleTimeStart # throttleTimeEnd =>
          \A i \in 1 .. (Len(Schedule) - 1) :
            Schedule[i].op # Schedule[i + 1].op)

C20_Witness ==
  /\ throttleTimeStart # throttleTimeEnd
  /\ Len(Schedule) = 3
  /\ Schedule[1].op = "apply"
  /\ Schedule[3].op = "apply"

\* ------------------------------------------------------------------ C21
\* C21 as stated: the throttling flag is changed only by a toggle.
C21_OnlyToggleWrites ==
  [][ throttling' # throttling => (pc = "select" /\ pc' = "loop") ]_vars

\* C21 amended: the throttling flag is changed only by the startup decision
\* of Run and by a toggle; construction, the wait and the cleanup on
\* cancellation leave it as it is.
C21_OnlyStartupAndToggleWrite ==
  [][ throttling' # throttling =>
        \/ pc = "constructed" /\ pc' = "loop"
        \/ pc = "select" /\ pc' = "loop" ]_vars

C21_Witness ==
  /\ pc = "returned"
  /\ throttling
  /\ LastAction = [op |-> "clear", by |-> "cancel"]
  /\ Len(Toggles) = 0

\* ------------------------------------------------------------------ C23
\* C23: with start different from end, at every iteration of the loop
\* nextThrottleStartTime and nextThrottleEndTime differ by more than 0 and
\* less than 24 hours, the end being the earlier one exactly when throttling
\* is true and the start the earlier one exactly when it is false.
C23_BoundariesWithinADay ==
  (throttleTimeStart # throttleTimeEnd /\ pc \in {"loop", "select"}) =>
    /\ nextThrottleStartTime # nextThrottleEndTime
    /\ nextThrottleStartTime - nextThrottleEndTime < Hours24
    /\ nextThrottleEndTime - nextThrottleStartTime < Hours24
    /\ throttling = (nextThrottleEndTime < nextThrottleStartTime)
    /\ ~throttling = (nextThrottleStartTime < nextThrottleEndTime)

\* ------------------------------------------------------------------ C24
\* C24: a construction that fails validation has issued no action, has made
\* no call that reads the clock, and has left every field and the timer as
\* they were; nothing is issued afterwards either.
C24_FailedNewDoesNothing ==
  pc = "failed" =>
    /\ log = << >>
    /\ lastOk = TRUE
    /\ call = NoCall
    /\ timer = NoTimer
    /\ nextThrottleStartTime = ZeroTime
    /\ nextThrottleEndTime = ZeroTime
    /\ nextUpdateTime = ZeroTime
    /\ throttling = FALSE

C24_Witness ==
  /\ pc = "failed"
  /\ throttleTimeStart < 0
  /\ throttleTimeEnd \in 0 .. (Hours24 - 1)
  /\ clock > clock0
  /\ log = << >>

\* ------------------------------------------------------------------ C22
\* C22: once cancellation has been signalled while Run is in its loop, Run
\* performs at most one further toggle before it takes the cancellation
\* branch, and it never returns with an apply as its last action.
C22_AtMostOneToggleAfterCancel ==
  /\ togglesSinceCancel <= 1
  /\ (pc = "returned" /\ togglesSinceCancel # NotCancelledInLoop) =>
       LastAction.op # "apply"

====
